---- MODULE Spec2Model ----
(***************************************************************************)
(* The event-ingestion handlers and the Postgres stores of                 *)
(* baby-tracker-server.  The repository holds several revisions of         *)
(* internal/server/server.go and internal/postgres/store.go; the model     *)
(* keeps them apart as revisions of one machine:                           *)
(*   R1  server.go:1-255     createEvent / parseEventRequest, details map, *)
(*                           with the store of unnamed/part_006            *)
(*   R2  server.go:257-621   createEvent / buildCreateEventInput, flat     *)
(*                           request, with the store of part_005:232-378   *)
(*   R3  unnamed/part_004    createEvent with typed per-kind details, on   *)
(*                           the same CreateEventInput store interface     *)
(*   R4  postgres/store.go   the column store (side, occurred_at,          *)
(*                           started_at, ended_at) called as its           *)
(*                           integration test calls it                     *)
(* Go strings that the code inspects are sequences of one-character        *)
(* strings; an optional value (a pointer, a NULL column, a JSON key that   *)
(* may be absent) is a sequence of length 0 or 1.                          *)
(***************************************************************************)
EXTENDS Integers, Sequences, FiniteSets, TLC

\* ---------------------------------------------------------------- bounds
\* Fields of a request that may differ from a well-formed request of a kind.
MaxVaried == 1
\* Values the events id sequence may hand out.
MaxEvents == 1
\* Instants are ticks 0..MaxTick, TicksPerSecond of them to a second.
MaxTick == 2
MaxCallers == 2
MaxBabies == 3
TicksPerSecond == 2
\* The int of the model is IntBits wide; the builds of the server have 64.
IntBits == 6

\* ------------------------------------------------------- optional values
None == <<>>
Some(x) == <<x>>
IsSome(o) == Len(o) = 1
Get(o) == o[1]

\* ---------------------------------------------------------------- strings
UpperLetters == <<"A","B","C","D","E","F","G","H","I","J","K","L","M",
                  "N","O","P","Q","R","S","T","U","V","W","X","Y","Z">>
LowerLetters == <<"a","b","c","d","e","f","g","h","i","j","k","l","m",
                  "n","o","p","q","r","s","t","u","v","w","x","y","z">>
Digits == <<"0","1","2","3","4","5","6","7","8","9">>

IndexIn(c, seq) ==
    IF \E i \in 1..Len(seq) : seq[i] = c
    THEN CHOOSE i \in 1..Len(seq) : seq[i] = c
    ELSE 0

\* unicode.ToLower on one character of the alphabet the requests use
ToLowerChar(c) ==
    IF IndexIn(c, UpperLetters) > 0 THEN LowerLetters[IndexIn(c, UpperLetters)] ELSE c

\* strings.ToLower
ToLower(s) == [i \in 1..Len(s) |-> ToLowerChar(s[i])]

IsSpace(c) == c \in {" ", "\t", "\n", "\r"}

RECURSIVE TrimLeft(_)
TrimLeft(s) ==
    IF s # <<>> /\ IsSpace(Head(s)) THEN TrimLeft(Tail(s)) ELSE s

RECURSIVE TrimRight(_)
TrimRight(s) ==
    IF s # <<>> /\ IsSpace(s[Len(s)]) THEN TrimRight(SubSeq(s, 1, Len(s) - 1)) ELSE s

\* strings.TrimSpace
TrimSpace(s) == TrimRight(TrimLeft(s))

IsDigit(c) == IndexIn(c, Digits) > 0
DigitValue(c) == IndexIn(c, Digits) - 1

\* the longest prefix of s made of digits
RECURSIVE DigitPrefix(_)
DigitPrefix(s) ==
    IF s # <<>> /\ IsDigit(Head(s)) THEN <<Head(s)>> \o DigitPrefix(Tail(s)) ELSE <<>>

RECURSIVE DecimalValue(_)
DecimalValue(ds) ==
    IF ds = <<>> THEN 0
    ELSE 10 * DecimalValue(SubSeq(ds, 1, Len(ds) - 1)) + DigitValue(ds[Len(ds)])

HasSign(s) == s # <<>> /\ Head(s) \in {"+", "-"}
Unsigned(s) == IF HasSign(s) THEN Tail(s) ELSE s
Signed(s, n) == IF HasSign(s) /\ Head(s) = "-" THEN 0 - n ELSE n

\* strconv.ParseInt(value, 10, 64): an optional sign, then digits and nothing else.
\* The identifiers of the model are far below 2^63, so the range error never arises.
ParseInt(s) ==
    LET body == Unsigned(s) IN
    IF body # <<>> /\ DigitPrefix(body) = body
    THEN [ok |-> TRUE, n |-> Signed(s, DecimalValue(body))]
    ELSE [ok |-> FALSE, n |-> 0]

\* fmt.Sscanf(raw, "%d", &n): leading space skipped, an optional sign, then the
\* digits that follow; whatever comes after the digits is left unread.
SscanfInt(s) ==
    LET t == TrimLeft(s)
        body == Unsigned(t)
        ds == DigitPrefix(body)
    IN IF ds # <<>>
       THEN [ok |-> TRUE, n |-> Signed(t, DecimalValue(ds))]
       ELSE [ok |-> FALSE, n |-> 0]

\* -------------------------------------------------------- string literals
S_empty == <<>>
S_diaper == <<"d","i","a","p","e","r">>
S_diaper_change == <<"d","i","a","p","e","r","_","c","h","a","n","g","e">>
S_nursing == <<"n","u","r","s","i","n","g">>
S_sleep == <<"s","l","e","e","p">>
S_left == <<"l","e","f","t">>
S_right == <<"r","i","g","h","t">>
S_wet == <<"w","e","t">>
S_dirty == <<"d","i","r","t","y">>
S_both == <<"b","o","t","h">>
S_mixed == <<"m","i","x","e","d">>
\* spellings only requests use
S_Sleep_sp == <<"S","l","e","e","p"," ">>
S_bottle == <<"b","o","t","t","l","e">>
S_RIGHT == <<"R","I","G","H","T">>
S_middle == <<"m","i","d","d","l","e">>
S_note == <<"o","k">>
S_1 == <<"1">>
S_9 == <<"9">>
S_0 == <<"0">>
S_minus1 == <<"-","1">>
S_1x == <<"1","x">>
S_x == <<"x">>

\* ------------------------------------------------------------------ time
\* A time.Time is the tick it denotes; time.Time{} lies before every tick.
ZeroTime == 0 - 1
Ticks == 0..MaxTick

\* A timestamp as it stands in a JSON body: the empty string (or a key left
\* out), text that is not RFC 3339, or RFC 3339 text denoting tick t.
RawEmpty == [k |-> "empty", t |-> 0]
RawMalformed == [k |-> "malformed", t |-> 0]
RawAt(t) == [k |-> "rfc3339", t |-> t]
RawTimes == {RawEmpty, RawMalformed} \cup {RawAt(t) : t \in Ticks}

\* time.Parse(time.RFC3339, value)
timeParse(raw) ==
    IF raw.k = "rfc3339" THEN [ok |-> TRUE, t |-> raw.t] ELSE [ok |-> FALSE, t |-> ZeroTime]

\* t.Format(time.RFC3339): the layout has no fractional seconds, so the text
\* denotes the start of t's second.
FormatRFC3339(t) == t - (t % TicksPerSecond)

\* ----------------------------------------------------------- JSON numbers
\* A JSON number is whole + 1/2 when half, else whole.
Num(w) == [whole |-> w, half |-> FALSE]
NumAndHalf(w) == [whole |-> w, half |-> TRUE]
IsIntegral(v) == ~v.half
IsPositive(v) == v.whole > 0 \/ (v.whole = 0 /\ v.half)

\* ---------------------------------------------------- details documents
\* The JSON object kept in events.details: every key any revision writes.
NoDetails ==
    [notes |-> None, kind |-> None, side |-> None, duration_minutes |-> None,
     start_at |-> None, end_at |-> None, start_time |-> None, end_time |-> None]

\* ------------------------------------------------------------ the database
\* db is [babies, events, seq]: the babies table, the events table and the next
\* value of the events id sequence (BIGSERIAL).  NOW() is one tick past the
\* instants requests can name.
NowTick == MaxTick + 1

BabyIDs(db) == {b.id : b \in db.babies}

\* Outcomes of the round trip to Postgres that the statement itself does not
\* decide: it runs, the connection fails, or the caller's context is cancelled.
\* The context may be done before the statement takes effect ("canceled") or
\* while Scan waits for the row of a statement the server has already run and
\* committed ("canceled_late"): Scan returns ctx.Err() in both cases.
StoreFaults == {"none", "unavailable", "canceled", "canceled_late"}

\* a sequence that hands its current value out again
TakeIDAgain(db) == db

\* A BIGSERIAL default is taken from the sequence before the row's constraints
\* are checked, and a rolled-back statement does not give the value back.
TakeID(db) == [db EXCEPT !.seq = @ + 1]

\* ------------------------------------------------- R2 / R3: the store
ZeroEventP5 ==
    [ID |-> 0, BabyID |-> 0, Type |-> S_empty, OccurredAt |-> ZeroTime, Details |-> NoDetails]

ZeroInputP5 ==
    [BabyID |-> 0, Type |-> S_empty, OccurredAt |-> ZeroTime, Details |-> NoDetails]

\* CreateEvent answering with the row already stored for the same content
CreateEventP5Deduplicating(db, input, fault) ==
    LET same == {e \in db.events : /\ e.baby_id = input.BabyID
                                   /\ e.type = input.Type
                                   /\ e.occurred_at = input.OccurredAt
                                   /\ e.details = input.Details}
        kept == CHOOSE e \in same : TRUE
        row == [id |-> db.seq, baby_id |-> input.BabyID, type |-> input.Type,
                occurred_at |-> input.OccurredAt, details |-> input.Details,
                created_at |-> NowTick]
    IN IF fault # "none"
       THEN [ok |-> FALSE, err |-> "insert event", event |-> ZeroEventP5, db |-> db]
       ELSE IF input.BabyID \notin BabyIDs(db)
       THEN [ok |-> FALSE, err |-> "insert event", event |-> ZeroEventP5, db |-> TakeID(db)]
       ELSE IF same # {}
       THEN [ok |-> TRUE, err |-> "",
             event |-> [ID |-> kept.id, BabyID |-> kept.baby_id, Type |-> kept.type,
                        OccurredAt |-> kept.occurred_at, Details |-> kept.details],
             db |-> TakeID(db)]
       ELSE [ok |-> TRUE, err |-> "",
             event |-> [ID |-> row.id, BabyID |-> row.baby_id, Type |-> row.type,
                        OccurredAt |-> row.occurred_at, Details |-> row.details],
             db |-> [TakeID(db) EXCEPT !.events = @ \cup {row}]]

\* INSERT INTO events (baby_id, type, occurred_at, details) ... RETURNING ...
CreateEventP5(db, input, fault) ==
    IF fault \in {"unavailable", "canceled"}
    THEN [ok |-> FALSE, err |-> "insert event", event |-> ZeroEventP5, db |-> db]
    ELSE IF input.BabyID \notin BabyIDs(db)
    THEN [ok |-> FALSE, err |-> "insert event", event |-> ZeroEventP5, db |-> TakeID(db)]
    ELSE LET row == [id |-> db.seq, baby_id |-> input.BabyID, type |-> input.Type,
                     occurred_at |-> input.OccurredAt, details |-> input.Details,
                     created_at |-> NowTick]
             stored == [TakeID(db) EXCEPT !.events = @ \cup {row}]
         IN IF fault = "canceled_late"
            THEN [ok |-> FALSE, err |-> "insert event", event |-> ZeroEventP5,
                  db |-> stored]
            ELSE [ok |-> TRUE, err |-> "",
                  event |-> [ID |-> row.id, BabyID |-> row.baby_id, Type |-> row.type,
                             OccurredAt |-> row.occurred_at, Details |-> row.details],
                  db |-> stored]

\* ------------------------------------------------- R2: server.go:257-621
\* parseTimestamp: strings.TrimSpace leaves an all-space value empty, which is
\* RawEmpty here.
parseTimestamp(value) ==
    IF value.k = "empty" THEN [ok |-> FALSE, t |-> ZeroTime] ELSE timeParse(value)

parseID(value) ==
    IF TrimSpace(value) = S_empty THEN [ok |-> FALSE, n |-> 0] ELSE ParseInt(TrimSpace(value))

\* json.NewDecoder(r.Body).Decode(&req) into createEventRequest: the body must
\* be JSON and duration_minutes, when given, a number an int can hold.
\* createEventRequest has no field for the key "id", and Decode drops the keys
\* the struct does not name: body.body_id goes nowhere.
DecodeR2(body) ==
    IF ~body.json \/ (IsSome(body.duration_minutes) /\ ~IsIntegral(Get(body.duration_minutes)))
    THEN [ok |-> FALSE, req |-> [Type |-> S_empty]]
    ELSE [ok |-> TRUE,
          req |-> [Type |-> body.type, OccurredAt |-> body.occurred_at,
                   StartAt |-> body.start_at, EndAt |-> body.end_at,
                   Side |-> body.side,
                   DurationMinutes |-> IF IsSome(body.duration_minutes)
                                       THEN Get(body.duration_minutes).whole ELSE 0,
                   Notes |-> body.notes]]

BuildErr(msg) == [ok |-> FALSE, msg |-> msg, input |-> ZeroInputP5]
BuildOk(input) == [ok |-> TRUE, msg |-> "", input |-> input]

buildDiaper(babyID, req) ==
    LET occurredAt == parseTimestamp(req.OccurredAt) IN
    IF ~occurredAt.ok THEN BuildErr("occurred_at is required for diaper events")
    ELSE BuildOk([BabyID |-> babyID, Type |-> S_diaper, OccurredAt |-> occurredAt.t,
                  Details |-> IF TrimSpace(req.Notes) # S_empty
                              THEN [NoDetails EXCEPT !.notes = Some(req.Notes)]
                              ELSE NoDetails])

buildNursing(babyID, req) ==
    LET occurredAt == parseTimestamp(req.OccurredAt)
        side == ToLower(TrimSpace(req.Side))
    IN IF ~occurredAt.ok THEN BuildErr("occurred_at is required for nursing events")
       ELSE IF side # S_left /\ side # S_right
       THEN BuildErr("side must be left or right for nursing events")
       ELSE IF req.DurationMinutes <= 0
       THEN BuildErr("duration_minutes must be greater than 0 for nursing events")
       ELSE BuildOk([BabyID |-> babyID, Type |-> S_nursing, OccurredAt |-> occurredAt.t,
                     Details |-> [NoDetails EXCEPT !.side = Some(side),
                                     !.duration_minutes = Some(req.DurationMinutes)]])

\* buildSleep handing the request's own type text on to the store
buildSleepKeepingType(babyID, req) ==
    LET startAt == parseTimestamp(req.StartAt)
        endAt == parseTimestamp(req.EndAt)
    IN IF ~startAt.ok THEN BuildErr("start_at is required for sleep events")
       ELSE IF ~endAt.ok THEN BuildErr("end_at is required for sleep events")
       ELSE IF ~(endAt.t > startAt.t)
       THEN BuildErr("end_at must be after start_at for sleep events")
       ELSE BuildOk([BabyID |-> babyID, Type |-> req.Type, OccurredAt |-> startAt.t,
                     Details |-> [NoDetails EXCEPT
                                     !.start_at = Some(FormatRFC3339(startAt.t)),
                                     !.end_at = Some(FormatRFC3339(endAt.t))]])

buildSleep(babyID, req) ==
    LET startAt == parseTimestamp(req.StartAt)
        endAt == parseTimestamp(req.EndAt)
    IN IF ~startAt.ok THEN BuildErr("start_at is required for sleep events")
       ELSE IF ~endAt.ok THEN BuildErr("end_at is required for sleep events")
       ELSE IF ~(endAt.t > startAt.t)
       THEN BuildErr("end_at must be after start_at for sleep events")
       ELSE BuildOk([BabyID |-> babyID, Type |-> S_sleep, OccurredAt |-> startAt.t,
                     Details |-> [NoDetails EXCEPT
                                     !.start_at = Some(FormatRFC3339(startAt.t)),
                                     !.end_at = Some(FormatRFC3339(endAt.t))]])

\* buildCreateEventInput with a default case that falls back to a diaper event
buildCreateEventInputDefaulting(babyID, req) ==
    LET kind == ToLower(TrimSpace(req.Type)) IN
    IF kind = S_nursing THEN buildNursing(babyID, req)
    ELSE IF kind = S_sleep THEN buildSleep(babyID, req)
    ELSE buildDiaper(babyID, req)

buildCreateEventInput(babyID, req) ==
    LET kind == ToLower(TrimSpace(req.Type)) IN
    IF kind = S_diaper THEN buildDiaper(babyID, req)
    ELSE IF kind = S_nursing THEN buildNursing(babyID, req)
    ELSE IF kind = S_sleep THEN buildSleep(babyID, req)
    ELSE BuildErr("type must be diaper, nursing, or sleep")

\* What a handler leaves behind: the response (status, msg, data), the calls it
\* made to store.CreateEvent with their argument, and the database.
Reply(status, msg, db) ==
    [status |-> status, msg |-> msg, data |-> None, calls |-> 0, input |-> None, db |-> db]

Stored(status, msg, data, input, db) ==
    [status |-> status, msg |-> msg, data |-> data, calls |-> 1, input |-> Some(input),
     db |-> db]

InternalServerError == "Internal Server Error"

\* createEvent calling the store before it looks at the validation result
createEventR2StoreFirst(r, db, fault) ==
    LET babyID == parseID(r.id)
        dec == DecodeR2(r)
        built == buildCreateEventInput(babyID.n, dec.req)
        res == CreateEventP5(db, built.input, fault)
    IN IF ~babyID.ok THEN Reply(400, "invalid baby id", db)
       ELSE IF ~dec.ok THEN Reply(400, "invalid json body", db)
       ELSE IF ~built.ok THEN Stored(400, built.msg, None, built.input, res.db)
       ELSE IF ~res.ok THEN Stored(500, InternalServerError, None, built.input, res.db)
       ELSE Stored(201, "", Some(res.event), built.input, res.db)

\* createEvent looking the baby up before it calls the store
createEventR2CheckingBaby(r, db, fault) ==
    LET babyID == parseID(r.id)
        dec == DecodeR2(r)
        built == buildCreateEventInput(babyID.n, dec.req)
        res == CreateEventP5(db, built.input, fault)
    IN IF ~babyID.ok THEN Reply(400, "invalid baby id", db)
       ELSE IF ~dec.ok THEN Reply(400, "invalid json body", db)
       ELSE IF ~built.ok THEN Reply(400, built.msg, db)
       ELSE IF babyID.n \notin BabyIDs(db) THEN Reply(404, "baby not found", db)
       ELSE IF ~res.ok THEN Stored(500, InternalServerError, None, built.input, res.db)
       ELSE Stored(201, "", Some(res.event), built.input, res.db)

\* createEvent answering a cancelled store call as if the event were created
createEventR2SwallowingCancel(r, db, fault) ==
    LET babyID == parseID(r.id)
        dec == DecodeR2(r)
        built == buildCreateEventInput(babyID.n, dec.req)
        res == CreateEventP5(db, built.input, fault)
    IN IF ~babyID.ok THEN Reply(400, "invalid baby id", db)
       ELSE IF ~dec.ok THEN Reply(400, "invalid json body", db)
       ELSE IF ~built.ok THEN Reply(400, built.msg, db)
       ELSE IF ~res.ok /\ fault = "canceled"
       THEN Stored(201, "", Some(res.event), built.input, res.db)
       ELSE IF ~res.ok THEN Stored(500, InternalServerError, None, built.input, res.db)
       ELSE Stored(201, "", Some(res.event), built.input, res.db)

\* createEvent refusing every request once an insert has failed and left a gap
\* in the ids
createEventR2Sticky(r, db, fault) ==
    LET babyID == parseID(r.id)
        dec == DecodeR2(r)
        built == buildCreateEventInput(babyID.n, dec.req)
        res == CreateEventP5(db, built.input, fault)
    IN IF db.seq > Cardinality(db.events) + 1 THEN Reply(500, InternalServerError, db)
       ELSE IF ~babyID.ok THEN Reply(400, "invalid baby id", db)
       ELSE IF ~dec.ok THEN Reply(400, "invalid json body", db)
       ELSE IF ~built.ok THEN Reply(400, built.msg, db)
       ELSE IF ~res.ok THEN Stored(500, InternalServerError, None, built.input, res.db)
       ELSE Stored(201, "", Some(res.event), built.input, res.db)

createEventR2(r, db, fault) ==
    LET babyID == parseID(r.id)
        dec == DecodeR2(r)
        built == buildCreateEventInput(babyID.n, dec.req)
        res == CreateEventP5(db, built.input, fault)
    IN IF ~babyID.ok THEN Reply(400, "invalid baby id", db)
       ELSE IF ~dec.ok THEN Reply(400, "invalid json body", db)
       ELSE IF ~built.ok THEN Reply(400, built.msg, db)
       ELSE IF ~res.ok THEN Stored(500, InternalServerError, None, built.input, res.db)
       ELSE Stored(201, "", Some(res.event), built.input, res.db)

\* ------------------------------------------------- R3: unnamed/part_004
\* The zero time.Time written out as RFC 3339 text.
RawZero == RawAt(ZeroTime)
RawTimesR3 == RawTimes \cup {RawZero}

\* A time.Time or *time.Time field: an absent key (RawEmpty here) leaves the
\* zero value or nil, any other text goes through time.Parse and fails the
\* decoding when it is not RFC 3339.
TimeFieldOk(raw) == raw.k = "empty" \/ timeParse(raw).ok
TimeField(raw) == IF raw.k = "empty" THEN ZeroTime ELSE timeParse(raw).t

NoRequestR3 ==
    [Type |-> S_empty, OccurredAt |-> None, Diaper |-> None, Nursing |-> None, Sleep |-> None]

DecodeR3(body) ==
    IF \/ ~body.json
       \/ ~TimeFieldOk(body.occurred_at)
       \/ body.nursing /\ IsSome(body.duration_minutes)
                       /\ ~IsIntegral(Get(body.duration_minutes))
       \/ body.sleep /\ (~TimeFieldOk(body.start_time) \/ ~TimeFieldOk(body.end_time))
    THEN [ok |-> FALSE, req |-> NoRequestR3]
    ELSE [ok |-> TRUE,
          req |-> [Type |-> body.type,
                   OccurredAt |-> IF body.occurred_at.k = "empty" THEN None
                                  ELSE Some(TimeField(body.occurred_at)),
                   Diaper |-> IF body.diaper THEN Some([Kind |-> body.kind]) ELSE None,
                   Nursing |-> IF body.nursing
                               THEN Some([Side |-> body.side,
                                          DurationMinutes |->
                                              IF IsSome(body.duration_minutes)
                                              THEN Get(body.duration_minutes).whole ELSE 0])
                               ELSE None,
                   Sleep |-> IF body.sleep
                             THEN Some([StartTime |-> TimeField(body.start_time),
                                        EndTime |-> TimeField(body.end_time)])
                             ELSE None]]

IsZero(t) == t = ZeroTime

CheckErr(msg) == [ok |-> FALSE, msg |-> msg, details |-> NoDetails]
CheckOk(details) == [ok |-> TRUE, msg |-> "", details |-> details]

\* the switch on req.Type of part_004:126-172, with json.Marshal(details)
detailsR3(q) ==
    IF q.Type = S_diaper THEN
        IF ~IsSome(q.Diaper) THEN CheckErr("diaper details are required")
        ELSE IF Get(q.Diaper).Kind \notin {S_wet, S_dirty, S_mixed}
        THEN CheckErr("diaper.kind must be wet, dirty, or mixed")
        ELSE CheckOk([NoDetails EXCEPT !.kind = Some(Get(q.Diaper).Kind)])
    ELSE IF q.Type = S_nursing THEN
        IF ~IsSome(q.Nursing) THEN CheckErr("nursing details are required")
        ELSE IF Get(q.Nursing).DurationMinutes <= 0
        THEN CheckErr("nursing.duration_minutes must be positive")
        ELSE IF Get(q.Nursing).Side \notin {S_left, S_right}
        THEN CheckErr("nursing.side must be left or right")
        ELSE CheckOk([NoDetails EXCEPT !.side = Some(Get(q.Nursing).Side),
                         !.duration_minutes = Some(Get(q.Nursing).DurationMinutes)])
    ELSE IF q.Type = S_sleep THEN
        IF ~IsSome(q.Sleep) THEN CheckErr("sleep details are required")
        ELSE IF IsZero(Get(q.Sleep).StartTime) \/ IsZero(Get(q.Sleep).EndTime)
        THEN CheckErr("sleep.start_time and sleep.end_time are required")
        ELSE IF ~(Get(q.Sleep).EndTime > Get(q.Sleep).StartTime)
        THEN CheckErr("sleep.end_time must be after sleep.start_time")
        ELSE CheckOk([NoDetails EXCEPT !.start_time = Some(Get(q.Sleep).StartTime),
                                       !.end_time = Some(Get(q.Sleep).EndTime)])
    ELSE CheckErr("invalid event type")

\* The stores of the repository never return ErrNotFound; the handler has the
\* branch for a BabyStore that does.
ErrNotFound == "not found"

\* The handler is written against the interface BabyStore, whose CreateEvent
\* may return any error, the exported ErrNotFound among them.  Under
\* "not_found" the store reports a baby without a row that way and adds
\* nothing; in every other case it is the Postgres store of part_005.
BabyStoreR3(db, input, fault) ==
    IF fault = "not_found"
    THEN IF input.BabyID \notin BabyIDs(db)
         THEN [ok |-> FALSE, err |-> ErrNotFound, event |-> ZeroEventP5, db |-> db]
         ELSE CreateEventP5(db, input, "none")
    ELSE CreateEventP5(db, input, fault)

\* createEvent calling the store a second time when the first call fails
createEventR3Retrying(r, db, fault) ==
    LET babyID == ParseInt(r.id)
        dec == DecodeR3(r)
        checked == detailsR3(dec.req)
        input == [BabyID |-> babyID.n, Type |-> dec.req.Type,
                  OccurredAt |-> Get(dec.req.OccurredAt), Details |-> checked.details]
        first == BabyStoreR3(db, input, fault)
        res == IF first.ok THEN first ELSE BabyStoreR3(first.db, input, fault)
        calls == IF first.ok THEN 1 ELSE 2
    IN IF ~babyID.ok \/ babyID.n <= 0 THEN Reply(400, "invalid baby id", db)
       ELSE IF ~dec.ok THEN Reply(400, "invalid json body", db)
       ELSE IF ~IsSome(dec.req.OccurredAt) \/ IsZero(Get(dec.req.OccurredAt))
       THEN Reply(400, "occurred_at is required", db)
       ELSE IF ~checked.ok THEN Reply(400, checked.msg, db)
       ELSE IF ~res.ok /\ res.err = ErrNotFound
       THEN [Stored(404, "baby not found", None, input, res.db) EXCEPT !.calls = calls]
       ELSE IF ~res.ok
       THEN [Stored(500, InternalServerError, None, input, res.db) EXCEPT !.calls = calls]
       ELSE [Stored(201, "", Some(res.event), input, res.db) EXCEPT !.calls = calls]

createEventR3(r, db, fault) ==
    LET babyID == ParseInt(r.id)
        dec == DecodeR3(r)
        checked == detailsR3(dec.req)
        input == [BabyID |-> babyID.n, Type |-> dec.req.Type,
                  OccurredAt |-> Get(dec.req.OccurredAt), Details |-> checked.details]
        res == BabyStoreR3(db, input, fault)
    IN IF ~babyID.ok \/ babyID.n <= 0 THEN Reply(400, "invalid baby id", db)
       ELSE IF ~dec.ok THEN Reply(400, "invalid json body", db)
       ELSE IF ~IsSome(dec.req.OccurredAt) \/ IsZero(Get(dec.req.OccurredAt))
       THEN Reply(400, "occurred_at is required", db)
       ELSE IF ~checked.ok THEN Reply(400, checked.msg, db)
       ELSE IF ~res.ok /\ res.err = ErrNotFound
       THEN Stored(404, "baby not found", None, input, res.db)
       ELSE IF ~res.ok THEN Stored(500, InternalServerError, None, input, res.db)
       ELSE Stored(201, "", Some(res.event), input, res.db)

\* ------------------------------------------------- R1: server.go:1-255
\* A value under a key of the details object, as encoding/json puts it in a
\* map[string]any: a string, or a number (float64).
JStr(s) == [t |-> "string", s |-> s, n |-> Num(0)]
JNum(v) == [t |-> "number", s |-> S_empty, n |-> v]

ZeroEventR1 ==
    [ID |-> 0, BabyID |-> 0, Type |-> S_empty, OccurredAt |-> ZeroTime,
     Details |-> NoDetails, CreatedAt |-> ZeroTime]

ZeroInputR1 ==
    [BabyID |-> 0, Type |-> S_empty, OccurredAt |-> ZeroTime, Details |-> NoDetails]

\* part_006: INSERT INTO events (baby_id, type, occurred_at, details)
\* VALUES ($1, $2, $3, $4) RETURNING id, created_at.  The arguments babyID and
\* input travel here as one record.
CreateEventP6(db, input, fault) ==
    IF fault \in {"unavailable", "canceled"}
    THEN [ok |-> FALSE, event |-> ZeroEventR1, db |-> db]
    ELSE IF input.BabyID \notin BabyIDs(db)
    THEN [ok |-> FALSE, event |-> ZeroEventR1, db |-> TakeID(db)]
    ELSE LET row == [id |-> db.seq, baby_id |-> input.BabyID, type |-> input.Type,
                     occurred_at |-> input.OccurredAt, details |-> input.Details,
                     created_at |-> NowTick]
             stored == [TakeID(db) EXCEPT !.events = @ \cup {row}]
         IN IF fault = "canceled_late"
            THEN [ok |-> FALSE, event |-> ZeroEventR1, db |-> stored]
            ELSE [ok |-> TRUE,
                  event |-> [ID |-> row.id, BabyID |-> input.BabyID, Type |-> input.Type,
                             OccurredAt |-> input.OccurredAt, Details |-> input.Details,
                             CreatedAt |-> row.created_at],
                  db |-> stored]

parseBabyID(raw) ==
    IF raw = S_empty THEN [ok |-> FALSE, n |-> 0, msg |-> "baby_id is required"]
    ELSE IF ~SscanfInt(raw).ok \/ SscanfInt(raw).n <= 0
    THEN [ok |-> FALSE, n |-> 0, msg |-> "baby_id must be a positive integer"]
    ELSE [ok |-> TRUE, n |-> SscanfInt(raw).n, msg |-> ""]

\* details is the object of the body: a record of optional JSON values.
getString(details, key) ==
    IF ~IsSome(details[key]) THEN S_empty
    ELSE IF Get(details[key]).t # "string" THEN S_empty
    ELSE Get(details[key]).s

\* A decoded body only holds float64 numbers, so the int case of the switch
\* is never taken.
\* The range of int.
MaxInt == 2^(IntBits - 1) - 1
MinInt == 0 - 2^(IntBits - 1)

\* The platform the server is built for.  It decides what the conversion of a
\* float64 beyond the range of int yields, which the language leaves to the
\* implementation: amd64 yields the minimum int, arm64 the nearest int.
Builds == {"amd64", "arm64"}
VARIABLE build

\* int(v) of a float64 v without a fraction
Float64ToInt(v) ==
    IF MinInt <= v.whole /\ v.whole <= MaxInt THEN v.whole
    ELSE IF build = "arm64" /\ v.whole > MaxInt THEN MaxInt
    ELSE MinInt

getPositiveInt(details, key) ==
    IF ~IsSome(details[key]) THEN [ok |-> FALSE, n |-> 0]
    ELSE IF Get(details[key]).t # "number" THEN [ok |-> FALSE, n |-> 0]
    ELSE IF ~IsPositive(Get(details[key]).n) \/ ~IsIntegral(Get(details[key]).n)
    THEN [ok |-> FALSE, n |-> 0]
    ELSE [ok |-> TRUE, n |-> Float64ToInt(Get(details[key]).n)]

DetailsErr(msg) == [ok |-> FALSE, msg |-> msg, details |-> NoDetails]
DetailsOk(details) == [ok |-> TRUE, msg |-> "", details |-> details]

validateDiaperChange(details) ==
    LET kind == getString(details, "kind") IN
    IF kind = S_empty THEN DetailsErr("details.kind is required for diaper_change")
    ELSE IF kind \in {S_wet, S_dirty, S_both}
    THEN DetailsOk([NoDetails EXCEPT !.kind = Some(kind)])
    ELSE DetailsErr("details.kind must be wet, dirty, or both")

validateNursing(details) ==
    LET side == getString(details, "side")
        duration == getPositiveInt(details, "duration_minutes")
    IN IF side = S_empty THEN DetailsErr("details.side is required for nursing")
       ELSE IF side # S_left /\ side # S_right
       THEN DetailsErr("details.side must be left or right")
       ELSE IF ~duration.ok
       THEN DetailsErr("details.duration_minutes is required for nursing")
       ELSE DetailsOk([NoDetails EXCEPT !.side = Some(side),
                                        !.duration_minutes = Some(duration.n)])

validateSleep(details) ==
    LET duration == getPositiveInt(details, "duration_minutes") IN
    IF ~duration.ok THEN DetailsErr("details.duration_minutes is required for sleep")
    ELSE DetailsOk([NoDetails EXCEPT !.duration_minutes = Some(duration.n)])

validateEventDetails(eventType, details) ==
    IF eventType = S_diaper_change THEN validateDiaperChange(details)
    ELSE IF eventType = S_nursing THEN validateNursing(details)
    ELSE IF eventType = S_sleep THEN validateSleep(details)
    ELSE DetailsErr("type must be one of diaper_change, nursing, sleep")

NoKeys == [kind |-> None, side |-> None, duration_minutes |-> None]

ParseErr(msg) == [ok |-> FALSE, msg |-> msg, input |-> ZeroInputR1]

\* parseEventRequest; a body without a details object decodes to a nil map,
\* which is replaced by an empty one.
parseEventRequest(r) ==
    LET occurredAt == timeParse(r.occurred_at)
        details == IF r.details
                   THEN [kind |-> r.kind, side |-> r.side,
                         duration_minutes |-> r.duration_minutes]
                   ELSE NoKeys
        validated == validateEventDetails(r.type, details)
    IN IF ~r.json THEN ParseErr("invalid JSON payload")
       ELSE IF r.type = S_empty THEN ParseErr("type is required")
       ELSE IF r.occurred_at.k = "empty" THEN ParseErr("occurred_at is required")
       ELSE IF ~occurredAt.ok THEN ParseErr("occurred_at must be RFC3339")
       ELSE IF ~validated.ok THEN ParseErr(validated.msg)
       ELSE [ok |-> TRUE, msg |-> "",
             input |-> [BabyID |-> 0, Type |-> r.type, OccurredAt |-> occurredAt.t,
                        Details |-> validated.details]]

createEventR1(r, db, fault) ==
    LET babyID == parseBabyID(r.id)
        parsed == parseEventRequest(r)
        args == [parsed.input EXCEPT !.BabyID = babyID.n]
        res == CreateEventP6(db, args, fault)
    IN IF ~babyID.ok THEN Reply(400, babyID.msg, db)
       ELSE IF ~parsed.ok THEN Reply(400, parsed.msg, db)
       ELSE IF ~res.ok THEN Stored(500, InternalServerError, None, args, res.db)
       ELSE Stored(201, "", Some(res.event), args, res.db)

\* ------------------------------------------------- R4: postgres/store.go
\* SQL's three truth values; a column or parameter is NULL (None) or a value.
SqlBool(b) == IF b THEN "true" ELSE "false"
SqlNot(a) == IF a = "null" THEN "null" ELSE SqlBool(a = "false")
SqlAnd(a, b) ==
    IF a = "false" \/ b = "false" THEN "false"
    ELSE IF a = "null" \/ b = "null" THEN "null" ELSE "true"
SqlOr(a, b) ==
    IF a = "true" \/ b = "true" THEN "true"
    ELSE IF a = "null" \/ b = "null" THEN "null" ELSE "false"
SqlIn(x, S) == IF x = None THEN "null" ELSE SqlBool(Get(x) \in S)
SqlNe(x, v) == IF x = None THEN "null" ELSE SqlBool(Get(x) # v)
SqlEq(x, v) == SqlNot(SqlNe(x, v))
SqlLe(x, y) == IF x = None \/ y = None THEN "null" ELSE SqlBool(Get(x) <= Get(y))
SqlIsNull(x) == SqlBool(x = None)
SqlIsNotNull(x) == SqlBool(x # None)

\* A CHECK constraint rejects a row only when its expression is false.
CheckHolds(a) == a # "false"

events_type_check(row) == SqlIn(Some(row.type), {S_diaper, S_nursing, S_sleep})

events_side_check(row) ==
    SqlOr(SqlNe(Some(row.type), S_nursing), SqlIn(row.side, {S_left, S_right}))

events_time_check(row) ==
    SqlOr(SqlAnd(SqlAnd(SqlEq(Some(row.type), S_diaper), SqlIsNotNull(row.occurred_at)),
                 SqlAnd(SqlIsNull(row.started_at), SqlIsNull(row.ended_at))),
          SqlAnd(SqlAnd(SqlIn(Some(row.type), {S_nursing, S_sleep}),
                        SqlIsNotNull(row.started_at)),
                 SqlAnd(SqlIsNotNull(row.ended_at), SqlIsNull(row.occurred_at))))

events_range_check(row) ==
    SqlOr(SqlIsNull(row.started_at), SqlLe(row.started_at, row.ended_at))

\* the constraints of CREATE TABLE events, the foreign key included
RowAdmitted(db, row) ==
    /\ row.id \notin {e.id : e \in db.events}
    /\ row.baby_id \in BabyIDs(db)
    /\ CheckHolds(events_type_check(row))
    /\ CheckHolds(events_side_check(row))
    /\ CheckHolds(events_time_check(row))
    /\ CheckHolds(events_range_check(row))

\* toNullString sending every string to NULL
toNullStringDropping(value) == None

\* sql.NullString / sql.NullTime as an optional value; a *time.Time is one already
toNullString(value) == IF value = S_empty THEN None ELSE Some(value)
toNullTime(value) == IF value = None THEN None ELSE Some(Get(value))

\* fmt.Errorf("insert event: %w", err): the text keeps the cause, which is
\* ctx.Err() when the caller's context was cancelled.
InsertError(cause) ==
    IF cause = "canceled" THEN "insert event: context canceled"
    ELSE IF cause = "unavailable" THEN "insert event: connection refused"
    ELSE "insert event: violates constraint"

ZeroEventR4 ==
    [ID |-> 0, BabyID |-> 0, Type |-> S_empty, Side |-> S_empty,
     OccurredAt |-> None, StartedAt |-> None, EndedAt |-> None]

\* CreateEvent whose statement replaces the rows of the same baby
CreateEventR4Replacing(db, event, fault) ==
    LET row == [id |-> db.seq, baby_id |-> event.BabyID, type |-> event.Type,
                side |-> toNullString(event.Side),
                occurred_at |-> toNullTime(event.OccurredAt),
                started_at |-> toNullTime(event.StartedAt),
                ended_at |-> toNullTime(event.EndedAt),
                created_at |-> NowTick]
    IN IF fault # "none"
       THEN [ok |-> FALSE, err |-> InsertError(fault), event |-> ZeroEventR4, db |-> db]
       ELSE IF ~RowAdmitted(db, row)
       THEN [ok |-> FALSE, err |-> InsertError("constraint"), event |-> ZeroEventR4,
             db |-> TakeID(db)]
       ELSE [ok |-> TRUE, err |-> "",
             event |-> [ID |-> row.id, BabyID |-> row.baby_id, Type |-> row.type,
                        Side |-> IF IsSome(row.side) THEN Get(row.side) ELSE S_empty,
                        OccurredAt |-> row.occurred_at, StartedAt |-> row.started_at,
                        EndedAt |-> row.ended_at],
             db |-> [TakeID(db) EXCEPT
                       !.events = {e \in @ : e.baby_id # row.baby_id} \cup {row}]]

\* CreateEvent inserting the caller's event.ID when it is set
CreateEventR4KeepingID(db, event, fault) ==
    LET row == [id |-> IF event.ID # 0 THEN event.ID ELSE db.seq,
                baby_id |-> event.BabyID, type |-> event.Type,
                side |-> toNullString(event.Side),
                occurred_at |-> toNullTime(event.OccurredAt),
                started_at |-> toNullTime(event.StartedAt),
                ended_at |-> toNullTime(event.EndedAt),
                created_at |-> NowTick]
    IN IF fault # "none"
       THEN [ok |-> FALSE, err |-> InsertError(fault), event |-> ZeroEventR4, db |-> db]
       ELSE IF ~RowAdmitted(db, row)
       THEN [ok |-> FALSE, err |-> InsertError("constraint"), event |-> ZeroEventR4,
             db |-> TakeID(db)]
       ELSE [ok |-> TRUE, err |-> "",
             event |-> [ID |-> row.id, BabyID |-> row.baby_id, Type |-> row.type,
                        Side |-> IF IsSome(row.side) THEN Get(row.side) ELSE S_empty,
                        OccurredAt |-> row.occurred_at, StartedAt |-> row.started_at,
                        EndedAt |-> row.ended_at],
             db |-> [TakeID(db) EXCEPT !.events = @ \cup {row}]]

CreateEventR4(db, event, fault) ==
    LET row == [id |-> db.seq, baby_id |-> event.BabyID, type |-> event.Type,
                side |-> toNullString(event.Side),
                occurred_at |-> toNullTime(event.OccurredAt),
                started_at |-> toNullTime(event.StartedAt),
                ended_at |-> toNullTime(event.EndedAt),
                created_at |-> NowTick]
    IN IF fault \in {"unavailable", "canceled"}
       THEN [ok |-> FALSE, err |-> InsertError(fault), event |-> ZeroEventR4, db |-> db]
       ELSE IF ~RowAdmitted(db, row)
       THEN [ok |-> FALSE, err |-> InsertError("constraint"), event |-> ZeroEventR4,
             db |-> TakeID(db)]
       ELSE IF fault = "canceled_late"
       THEN [ok |-> FALSE, err |-> InsertError("canceled"), event |-> ZeroEventR4,
             db |-> [TakeID(db) EXCEPT !.events = @ \cup {row}]]
       ELSE [ok |-> TRUE, err |-> "",
             event |-> [ID |-> row.id, BabyID |-> row.baby_id, Type |-> row.type,
                        Side |-> IF IsSome(row.side) THEN Get(row.side) ELSE S_empty,
                        OccurredAt |-> row.occurred_at, StartedAt |-> row.started_at,
                        EndedAt |-> row.ended_at],
             db |-> [TakeID(db) EXCEPT !.events = @ \cup {row}]]

\* A caller of the store, as store_integration_test.go is: there is no HTTP
\* status, the reply is the (event, error) pair.
callCreateEventR4(event, db, fault) ==
    LET res == CreateEventR4(db, event, fault) IN
    IF ~res.ok THEN Stored(0, res.err, None, event, res.db)
    ELSE Stored(0, "", Some(res.event), event, res.db)

\* ------------------------------------------------- R1: the requests
\* A request is the path value {id} and the JSON body.  The requests of the
\* model are those within MaxVaried fields of a well-formed request of a kind.
RECURSIVE Ball(_, _, _)
Ball(S, Dom, k) ==
    IF k = 0 THEN S
    ELSE Ball(S \cup UNION {{[r EXCEPT ![f] = v] : v \in Dom[f]} : r \in S, f \in DOMAIN Dom},
              Dom, k - 1)

JDurations ==
    {None, Some(JNum(Num(0 - 1))), Some(JNum(Num(0))), Some(JNum(NumAndHalf(1))),
     Some(JNum(Num(18))), Some(JNum(Num(MaxInt + 1))), Some(JStr(<<"1","8">>))}

DomR1 ==
    [id |-> {S_1, S_9, S_0, S_minus1, S_1x, S_x},
     json |-> BOOLEAN,
     type |-> {S_empty, S_diaper_change, S_diaper, S_nursing, S_sleep, S_Sleep_sp, S_bottle},
     occurred_at |-> RawTimes,
     details |-> BOOLEAN,
     kind |-> {None, Some(JStr(S_wet)), Some(JStr(S_both)), Some(JStr(S_mixed))},
     side |-> {None, Some(JStr(S_left)), Some(JStr(S_RIGHT)), Some(JStr(S_middle))},
     duration_minutes |-> JDurations]

BlankR1 ==
    [id |-> S_1, json |-> TRUE, type |-> S_empty, occurred_at |-> RawAt(0),
     details |-> TRUE, kind |-> None, side |-> None, duration_minutes |-> None]

BasesR1 ==
    {[BlankR1 EXCEPT !.type = S_diaper_change, !.kind = Some(JStr(S_wet))],
     [BlankR1 EXCEPT !.type = S_nursing, !.side = Some(JStr(S_left)),
                     !.duration_minutes = Some(JNum(Num(18)))],
     [BlankR1 EXCEPT !.type = S_sleep, !.duration_minutes = Some(JNum(Num(18)))]}

RequestsR1 == Ball(BasesR1, DomR1, MaxVaried)

\* ------------------------------------------------- R2: the requests
\* duration_minutes as a body can give it
Durations == {None, Some(Num(0 - 1)), Some(Num(0)), Some(NumAndHalf(1)), Some(Num(18))}

DomR2 ==
    [id |-> {S_1, S_9, S_0, S_minus1, S_1x, S_x},
     json |-> BOOLEAN,
     type |-> {S_empty, S_diaper, S_nursing, S_sleep, S_Sleep_sp, S_bottle},
     occurred_at |-> RawTimes,
     start_at |-> RawTimes,
     end_at |-> RawTimes,
     side |-> {S_empty, S_left, S_RIGHT, S_middle},
     duration_minutes |-> Durations,
     notes |-> {S_empty, S_note},
     body_id |-> {None, Some(7)}]

BlankR2 ==
    [id |-> S_1, json |-> TRUE, type |-> S_empty, occurred_at |-> RawEmpty,
     start_at |-> RawEmpty, end_at |-> RawEmpty, side |-> S_empty,
     duration_minutes |-> None, notes |-> S_empty, body_id |-> None]

BasesR2 ==
    {[BlankR2 EXCEPT !.type = S_diaper, !.occurred_at = RawAt(0)],
     [BlankR2 EXCEPT !.type = S_nursing, !.occurred_at = RawAt(0), !.side = S_left,
                     !.duration_minutes = Some(Num(18))],
     [BlankR2 EXCEPT !.type = S_sleep, !.start_at = RawAt(0), !.end_at = RawAt(1)]}

RequestsR2 == Ball(BasesR2, DomR2, MaxVaried)

\* ------------------------------------------------- R3: the requests
DomR3 ==
    [id |-> {S_1, S_9, S_0, S_minus1, S_1x, S_x},
     json |-> BOOLEAN,
     type |-> {S_empty, S_diaper, S_nursing, S_sleep, S_Sleep_sp, S_bottle},
     occurred_at |-> RawTimesR3,
     diaper |-> BOOLEAN,
     kind |-> {S_empty, S_wet, S_mixed, S_both},
     nursing |-> BOOLEAN,
     side |-> {S_empty, S_left, S_RIGHT, S_middle},
     duration_minutes |-> Durations,
     sleep |-> BOOLEAN,
     start_time |-> RawTimesR3,
     end_time |-> RawTimesR3]

BlankR3 ==
    [id |-> S_1, json |-> TRUE, type |-> S_empty, occurred_at |-> RawAt(0),
     diaper |-> FALSE, kind |-> S_empty, nursing |-> FALSE, side |-> S_empty,
     duration_minutes |-> None, sleep |-> FALSE, start_time |-> RawEmpty,
     end_time |-> RawEmpty]

BasesR3 ==
    {[BlankR3 EXCEPT !.type = S_diaper, !.diaper = TRUE, !.kind = S_wet],
     [BlankR3 EXCEPT !.type = S_nursing, !.nursing = TRUE, !.side = S_left,
                     !.duration_minutes = Some(Num(18))],
     [BlankR3 EXCEPT !.type = S_sleep, !.sleep = TRUE, !.start_time = RawAt(0),
                     !.end_time = RawAt(1)]}

RequestsR3 == Ball(BasesR3, DomR3, MaxVaried)

\* ------------------------------------------------- R4: the events passed in
OptTicks == {None} \cup {Some(t) : t \in Ticks}

DomR4 ==
    [ID |-> {0, 7},
     BabyID |-> {1, 9, 0},
     Type |-> {S_empty, S_diaper, S_nursing, S_sleep, S_Sleep_sp, S_bottle},
     Side |-> {S_empty, S_left, S_right, S_RIGHT, S_middle},
     OccurredAt |-> OptTicks,
     StartedAt |-> OptTicks,
     EndedAt |-> OptTicks]

BasesR4 ==
    {[ZeroEventR4 EXCEPT !.BabyID = 1, !.Type = S_diaper, !.OccurredAt = Some(0)],
     [ZeroEventR4 EXCEPT !.BabyID = 1, !.Type = S_nursing, !.Side = S_left,
                         !.StartedAt = Some(0), !.EndedAt = Some(1)],
     [ZeroEventR4 EXCEPT !.BabyID = 1, !.Type = S_sleep,
                         !.StartedAt = Some(0), !.EndedAt = Some(1)]}

RequestsR4 == Ball(BasesR4, DomR4, MaxVaried)

\* ------------------------------------------------------------ the machine
\* build, the platform of the binary, is declared with Float64ToInt.
VARIABLES rev, pc, req, resp, db, inflight

vars == <<build, rev, pc, req, resp, db, inflight>>

\* "R3n" is R3 behind a BabyStore that reports unknown babies as ErrNotFound.
Revisions == {"R1", "R2", "R3", "R3n", "R4"}

Requests(v) ==
    IF v = "R1" THEN RequestsR1
    ELSE IF v = "R2" THEN RequestsR2
    ELSE IF v \in {"R3", "R3n"} THEN RequestsR3 ELSE RequestsR4

\* store.New has run and the schema exists.  The store of R2 and R3 has filled
\* an empty babies table (seedBabies); the stores of R1 and R4 leave the table
\* to whoever sets the database up, as the integration test does with one row.
SeededBabies ==
    {[id |-> 1, name |-> "Alice"], [id |-> 2, name |-> "Bob"], [id |-> 3, name |-> "Charlie"]}

BabiesAtStart(v) ==
    IF v \in {"R2", "R3", "R3n"} THEN {SeededBabies}
    ELSE {{}, {[id |-> 1, name |-> "Charlie"]}}

\* The goroutines that may be inside Store.CreateEvent at once, and where each
\* is: the statement has two effects Postgres makes at different moments,
\* taking the id from the sequence and adding the row.
Callers == 1 .. MaxCallers

IdleCall == [at |-> "idle", event |-> ZeroEventR4, id |-> 0, ok |-> FALSE, status |-> 0]

Init ==
    /\ build \in Builds
    /\ rev \in Revisions
    /\ pc = "idle"
    /\ req = None
    /\ resp = None
    /\ \E bs \in BabiesAtStart(rev) : db = [babies |-> bs, events |-> {}, seq |-> 1]
    /\ inflight = [c \in Callers |-> IdleCall]

\* A client sends POST /v1/babies/{id}/events, or (R4) a caller is about to
\* pass an event to Store.CreateEvent.
Arrive ==
    /\ pc = "idle"
    /\ db.seq <= MaxEvents
    /\ \E r \in Requests(rev) : req' = Some(r)
    /\ pc' = "pending"
    /\ UNCHANGED <<build, rev, resp, db, inflight>>

Finish(out) ==
    /\ resp' = Some([status |-> out.status, msg |-> out.msg, data |-> out.data,
                     calls |-> out.calls, input |-> out.input])
    /\ db' = out.db
    /\ pc' = "done"
    /\ UNCHANGED <<build, rev, req, inflight>>

HandleR1 ==
    /\ rev = "R1"
    /\ pc = "pending"
    /\ \E fault \in StoreFaults : Finish(createEventR1(Get(req), db, fault))

HandleR2 ==
    /\ rev = "R2"
    /\ pc = "pending"
    /\ \E fault \in StoreFaults : Finish(createEventR2(Get(req), db, fault))

HandleR3 ==
    /\ rev = "R3"
    /\ pc = "pending"
    /\ \E fault \in StoreFaults : Finish(createEventR3(Get(req), db, fault))

HandleR3NotFound ==
    /\ rev = "R3n"
    /\ pc = "pending"
    /\ \E fault \in StoreFaults \cup {"not_found"} :
          Finish(createEventR3(Get(req), db, fault))

HandleR4 ==
    /\ rev = "R4"
    /\ pc = "pending"
    /\ \E fault \in StoreFaults : Finish(callCreateEventR4(Get(req), db, fault))

\* The response has been written; the handler's locals are gone.
Deliver ==
    /\ pc = "done"
    /\ pc' = "idle"
    /\ req' = None
    /\ resp' = None
    /\ UNCHANGED <<build, rev, db, inflight>>

Next ==
    \/ Arrive
    \/ HandleR1 \/ HandleR2 \/ HandleR3 \/ HandleR3NotFound \/ HandleR4
    \/ Deliver

Spec == Init /\ [][Next]_vars

\* ------------------------------------------- R4: concurrent CreateEvent
\* *sql.DB hands every call its own connection, so calls of CreateEvent from
\* different goroutines run their INSERT side by side in Postgres.
ConcurrentEvents ==
    {[ZeroEventR4 EXCEPT !.BabyID = 1, !.Type = S_diaper, !.OccurredAt = Some(0)],
     [ZeroEventR4 EXCEPT !.ID = 7, !.BabyID = 1, !.Type = S_sleep,
                         !.StartedAt = Some(0), !.EndedAt = Some(1)],
     [ZeroEventR4 EXCEPT !.BabyID = 9, !.Type = S_diaper, !.OccurredAt = Some(0)]}

\* The requests that reach createEvent of server.go:476-505 side by side: two
\* well-formed ones, one for a baby without a row, one with a bad path value.
ConcurrentRequests ==
    {[BlankR2 EXCEPT !.type = S_diaper, !.occurred_at = RawAt(0)],
     [BlankR2 EXCEPT !.type = S_sleep, !.start_at = RawAt(0), !.end_at = RawAt(1)],
     [BlankR2 EXCEPT !.id = S_9, !.type = S_diaper, !.occurred_at = RawAt(0)],
     [BlankR2 EXCEPT !.id = S_x, !.type = S_diaper, !.occurred_at = RawAt(0)]}

\* store.CreateEvent behind the BabyStore of the revision
StoreCreateEvent(v, d, arg, fault) ==
    IF v = "R2" THEN CreateEventP5(d, arg, fault) ELSE CreateEventR4(d, arg, fault)

InitConcurrent ==
    /\ build \in Builds
    /\ rev \in {"R2", "R4"}
    /\ pc = "idle"
    /\ req = None
    /\ resp = None
    /\ db = [babies |-> IF rev = "R2" THEN SeededBabies
                        ELSE {[id |-> 1, name |-> "Charlie"]},
             events |-> {}, seq |-> 1]
    /\ inflight = [c \in Callers |-> IdleCall]

\* s.db.QueryRowContext(ctx, query, ...) is entered with an event (R4), or a
\* request has come through createEvent's parsing and validation (R2): a
\* rejected one is answered without the store, any other is handed to
\* store.CreateEvent.  The handler keeps nothing between requests.
Call(c) ==
    /\ inflight[c].at = "idle"
    /\ db.seq <= MaxEvents + 1
    /\ IF rev = "R4"
       THEN \E event \in ConcurrentEvents :
              inflight' = [inflight EXCEPT
                             ![c] = [IdleCall EXCEPT !.at = "called", !.event = event]]
       ELSE \E r \in ConcurrentRequests :
              LET upToStore == createEventR2(r, db, "none") IN
              inflight' = [inflight EXCEPT
                             ![c] = IF upToStore.calls = 0
                                    THEN [IdleCall EXCEPT !.at = "returned",
                                                          !.status = upToStore.status]
                                    ELSE [IdleCall EXCEPT !.at = "called",
                                                          !.event = Get(upToStore.input)]]
    /\ UNCHANGED <<build, rev, pc, req, resp, db>>

\* The statement never runs: no connection, or ctx is done before it starts.
Refuse(c) ==
    /\ inflight[c].at = "called"
    /\ \E fault \in {"unavailable", "canceled"} :
          LET res == StoreCreateEvent(rev, db, inflight[c].event, fault) IN
          /\ inflight' = [inflight EXCEPT ![c].at = "returned", ![c].ok = res.ok,
                                          ![c].event = res.event]
          /\ db' = res.db
    /\ UNCHANGED <<build, rev, pc, req, resp>>

\* id BIGSERIAL: nextval of the events sequence, one atomic step of Postgres
NextVal(c) ==
    /\ inflight[c].at = "called"
    /\ inflight' = [inflight EXCEPT ![c].at = "taken", ![c].id = db.seq]
    /\ db' = TakeID(db)
    /\ UNCHANGED <<build, rev, pc, req, resp>>

\* The rest of the statement with the id it took: the constraints are checked
\* against the table as it is now and the row is added and returned, or the
\* statement fails; the sequence keeps what it gave out.
InsertRow(c) ==
    /\ inflight[c].at = "taken"
    /\ \E fault \in StoreFaults :
          LET res == StoreCreateEvent(rev, [db EXCEPT !.seq = inflight[c].id],
                                      inflight[c].event, fault)
          IN /\ inflight' = [inflight EXCEPT ![c].at = "returned", ![c].ok = res.ok,
                                             ![c].event = res.event]
             /\ db' = [res.db EXCEPT !.seq = db.seq]
    /\ UNCHANGED <<build, rev, pc, req, resp>>

\* CreateEvent returns (event, err) to its caller.
Return(c) ==
    /\ inflight[c].at = "returned"
    /\ inflight' = [inflight EXCEPT ![c] = IdleCall]
    /\ UNCHANGED <<build, rev, pc, req, resp, db>>

NextConcurrent ==
    \E c \in Callers : Call(c) \/ Refuse(c) \/ NextVal(c) \/ InsertRow(c) \/ Return(c)

SpecConcurrent == InitConcurrent /\ [][NextConcurrent]_vars

\* ------------------------------------------------- ListBabies
\* ORDER BY id written in the other direction
RECURSIVE OrderByIDDesc(_)
OrderByIDDesc(rows) ==
    IF rows = {} THEN <<>>
    ELSE LET last == CHOOSE r \in rows : \A o \in rows : o.id <= r.id
         IN <<last>> \o OrderByIDDesc(rows \ {last})

\* ORDER BY id: the rows of a table, smallest id first (id is the primary key)
RECURSIVE OrderByID(_)
OrderByID(rows) ==
    IF rows = {} THEN <<>>
    ELSE LET first == CHOOSE r \in rows : \A o \in rows : r.id <= o.id
         IN <<first>> \o OrderByID(rows \ {first})

\* SELECT id, name FROM babies ORDER BY id, each row scanned into a server.Baby
ListBabies(d, fault) ==
    IF fault # "none" THEN [ok |-> FALSE, err |-> "query babies", data |-> <<>>]
    ELSE LET rows == OrderByID(d.babies)
         IN [ok |-> TRUE, err |-> "",
             data |-> [i \in 1 .. Len(rows) |-> [ID |-> rows[i].id, Name |-> rows[i].name]]]

BabyNames == {"Alice", "Bob", "Charlie"}

\* babies.id is BIGSERIAL and no row is ever deleted: the next id is one more
\* than the number of rows.
NextBabyID(d) == Cardinality(d.babies) + 1

\* TRUNCATE TABLE babies RESTART IDENTITY has run.
InitBabies ==
    /\ build \in Builds
    /\ rev = "R4"
    /\ pc = "idle"
    /\ req = None
    /\ resp = None
    /\ db = [babies |-> {}, events |-> {}, seq |-> 1]
    /\ inflight = [c \in Callers |-> IdleCall]

\* INSERT INTO babies (name) VALUES ($1)
InsertBaby ==
    /\ Cardinality(db.babies) < MaxBabies
    /\ \E name \in BabyNames :
          db' = [db EXCEPT !.babies = @ \cup {[id |-> NextBabyID(db), name |-> name]}]
    /\ UNCHANGED <<build, rev, pc, req, resp, inflight>>

\* store.ListBabies(ctx); the caller keeps what came back until it calls again
\* or drops it.
List ==
    /\ pc \in {"idle", "listed"}
    /\ \E fault \in StoreFaults : resp' = Some(ListBabies(db, fault))
    /\ pc' = "listed"
    /\ UNCHANGED <<build, rev, req, db, inflight>>

Drop ==
    /\ pc = "listed"
    /\ pc' = "idle"
    /\ resp' = None
    /\ UNCHANGED <<build, rev, req, db, inflight>>

NextBabies == InsertBaby \/ List \/ Drop

SpecBabies == InitBabies /\ [][NextBabies]_vars

\* ------------------------------------------------- New and seedBabies (part_005)
\* the seed with its first two names the other way round
SeedNamesSwapped == <<"Bob", "Alice", "Charlie">>

\* INSERT INTO babies (name) VALUES ($1), ($2), ($3) with "Alice", "Bob", "Charlie"
SeedNames == <<"Alice", "Bob", "Charlie">>

\* Each caller of New is a process, or a test, starting a store on the same
\* database; the table is empty or already has a row.
InitSeed ==
    /\ build \in Builds
    /\ rev = "R2"
    /\ pc = "idle"
    /\ req = None
    /\ resp = None
    /\ \E bs \in {{}, {[id |-> 1, name |-> "Dana"]}} :
          db = [babies |-> bs, events |-> {}, seq |-> 1]
    /\ inflight = [c \in Callers |-> [at |-> "idle", count |-> 0]]

\* New up to the first statement of seedBabies: the connection is opened, the
\* schema is there (CREATE TABLE IF NOT EXISTS changes no row), and SELECT
\* COUNT(*) FROM babies is scanned into count; any of these may fail.
CountBabies(c) ==
    /\ inflight[c].at = "idle"
    /\ \E fault \in StoreFaults :
          inflight' = [inflight EXCEPT
                         ![c] = IF fault # "none" THEN [at |-> "failed", count |-> 0]
                                ELSE [at |-> "counted", count |-> Cardinality(db.babies)]]
    /\ UNCHANGED <<build, rev, pc, req, resp, db>>

\* The rest of seedBabies: return on count > 0, else the one INSERT of the
\* three names, whose ids the babies sequence gives in the order of the VALUES.
SeedBabies(c) ==
    /\ inflight[c].at = "counted"
    /\ \E fault \in StoreFaults :
          IF inflight[c].count > 0
          THEN /\ inflight' = [inflight EXCEPT ![c].at = "ready"]
               /\ db' = db
          ELSE IF fault \in {"unavailable", "canceled"}
          THEN /\ inflight' = [inflight EXCEPT ![c].at = "failed"]
               /\ db' = db
          ELSE /\ inflight' = [inflight EXCEPT
                                ![c].at = IF fault = "none" THEN "ready" ELSE "failed"]
               /\ db' = [db EXCEPT
                           !.babies = @ \cup {[id |-> NextBabyID(db) + i - 1,
                                               name |-> SeedNames[i]] : i \in 1 .. 3}]
    /\ UNCHANGED <<build, rev, pc, req, resp>>

\* store.Close(), or New has returned its error after db.Close()
CloseStore(c) ==
    /\ inflight[c].at \in {"ready", "failed"}
    /\ inflight' = [inflight EXCEPT ![c] = [at |-> "idle", count |-> 0]]
    /\ UNCHANGED <<build, rev, pc, req, resp, db>>

NextSeed == \E c \in Callers : CountBabies(c) \/ SeedBabies(c) \/ CloseStore(c)

SpecSeed == InitSeed /\ [][NextSeed]_vars

\* ------------------------------------------------------------ properties
Handlers == {"R1", "R2", "R3"}

\* the request being served and the reply to it
Request == Get(req)
Response == Get(resp)

\* Some step of a handler before the store call fails: the baby id, the body,
\* a timestamp or enum, or the checks of the kind.
ValidationFails(v, r) ==
    IF v = "R1" THEN ~parseBabyID(r.id).ok \/ ~parseEventRequest(r).ok
    ELSE IF v = "R2"
    THEN \/ ~parseID(r.id).ok
         \/ ~DecodeR2(r).ok
         \/ ~buildCreateEventInput(parseID(r.id).n, DecodeR2(r).req).ok
    ELSE \/ ~ParseInt(r.id).ok
         \/ ParseInt(r.id).n <= 0
         \/ ~DecodeR3(r).ok
         \/ ~IsSome(DecodeR3(r).req.OccurredAt)
         \/ IsZero(Get(DecodeR3(r).req.OccurredAt))
         \/ ~detailsR3(DecodeR3(r).req).ok

\* C1: when baby-id parsing, body decoding, timestamp or enum parsing or the
\* validation of the kind fails, the handler answers 400, store.CreateEvent is
\* not invoked for the request and the database is left as it was.
C1_FailureNeverReachesStore ==
    [][(pc = "pending" /\ rev \in Handlers /\ ValidationFails(rev, Request))
         => /\ Get(resp').status = 400
            /\ Get(resp').calls = 0
            /\ Get(resp').input = None
            /\ db' = db]_vars

C1_Witness ==
    /\ pc = "done"
    /\ rev = "R2"
    /\ parseID(Request.id).ok
    /\ DecodeR2(Request).ok
    /\ ToLower(TrimSpace(Request.type)) = S_nursing
    /\ ValidationFails(rev, Request)
    /\ Response.status = 400
    /\ Response.calls = 0

\* The kind a request names, letter case and surrounding space aside.
KindOf(r) == ToLower(TrimSpace(r.type))

\* A request that carries a field which belongs to another kind only.
ForeignField(v, r) ==
    IF v = "R1"
    THEN r.json /\ r.details /\ r.type \in {S_diaper_change, S_sleep} /\ IsSome(r.side)
    ELSE IF v = "R2"
    THEN \/ KindOf(r) = S_diaper
            /\ (r.side # S_empty \/ r.start_at.k # "empty" \/ r.end_at.k # "empty")
         \/ KindOf(r) = S_sleep /\ (r.side # S_empty \/ r.occurred_at.k # "empty")
    ELSE \/ r.type = S_diaper /\ (r.nursing \/ r.sleep)
         \/ r.type = S_sleep /\ r.nursing

\* C2: a request that supplies a field legal only for another kind (side on a
\* diaper or sleep event, start and end on a diaper event, occurredAt on a
\* sleep event) is answered with a validation error, never accepted with the
\* field dropped.
C2_ForeignFieldRejected ==
    (pc = "done" /\ rev \in Handlers /\ ForeignField(rev, Request))
        => Response.status = 400

\* the fields a row of the column store may populate, by kind
LegalFields(row) ==
    /\ row.type = S_diaper
         => /\ row.occurred_at # None
            /\ row.started_at = None /\ row.ended_at = None /\ row.side = None
    /\ row.type = S_sleep
         => /\ row.started_at # None /\ row.ended_at # None
            /\ row.occurred_at = None /\ row.side = None
    /\ row.type = S_nursing
         => /\ row.started_at # None /\ row.ended_at # None
            /\ row.side \in {Some(S_left), Some(S_right)}
            /\ row.occurred_at = None

\* C3: every event held by storage populates exactly the fields legal for its
\* kind: a diaper event occurredAt only, a sleep event startedAt and endedAt
\* only, a nursing event startedAt, endedAt and a side of left or right.
C3_ExactlyLegalFields ==
    rev = "R4" => \A row \in db.events : LegalFields(row)

\* the start and the end a stored row records, when it records both
Window(v, row) ==
    IF v = "R4"
    THEN IF row.started_at # None /\ row.ended_at # None
         THEN Some(<<Get(row.started_at), Get(row.ended_at)>>) ELSE None
    ELSE IF IsSome(row.details.start_at) /\ IsSome(row.details.end_at)
    THEN Some(<<Get(row.details.start_at), Get(row.details.end_at)>>)
    ELSE IF IsSome(row.details.start_time) /\ IsSome(row.details.end_time)
    THEN Some(<<Get(row.details.start_time), Get(row.details.end_time)>>)
    ELSE None

\* C4: a nursing or sleep event is accepted only when startedAt is strictly
\* before endedAt, so no stored event records a start at or after its end.
C4_StartStrictlyBeforeEnd ==
    \A row \in db.events :
        IsSome(Window(rev, row)) => Get(Window(rev, row))[1] < Get(Window(rev, row))[2]

\* the path value is a decimal integer that is zero or negative
NonPositiveID(raw) == ParseInt(raw).ok /\ ParseInt(raw).n <= 0

BabyIDMessages ==
    {"baby_id must be a positive integer", "invalid baby id"}

\* C5: a baby identifier that is zero or negative is answered 400 for the
\* identifier itself, before the body is looked at, and the store is not called.
C5_NonPositiveBabyIDRejected ==
    (pc = "done" /\ rev \in Handlers /\ NonPositiveID(Request.id))
        => /\ Response.status = 400
           /\ Response.msg \in BabyIDMessages
           /\ Response.calls = 0

\* A request of R2 that lacks a field its kind requires: occurredAt for a diaper
\* event, startedAt, endedAt and side for nursing, startedAt and endedAt for sleep.
MissingRequired(r) ==
    \/ KindOf(r) = S_diaper /\ r.occurred_at.k = "empty"
    \/ KindOf(r) = S_nursing
       /\ (r.start_at.k = "empty" \/ r.end_at.k = "empty" \/ r.side = S_empty)
    \/ KindOf(r) = S_sleep /\ (r.start_at.k = "empty" \/ r.end_at.k = "empty")

\* C6: a request missing a field required for its kind is answered 400 and the
\* store is not called.
C6_MissingRequiredRejected ==
    (pc = "done" /\ rev = "R2" /\ MissingRequired(Request))
        => Response.status = 400 /\ Response.calls = 0

\* A nursing request of R1 or R2 with nothing wrong but, possibly, its side.
NursingButSide(v, r) ==
    IF v = "R1"
    THEN /\ parseBabyID(r.id).ok /\ r.json /\ r.type = S_nursing
         /\ timeParse(r.occurred_at).ok /\ r.details
         /\ IsSome(r.side) /\ Get(r.side).t = "string"
         /\ getPositiveInt([kind |-> r.kind, side |-> r.side,
                            duration_minutes |-> r.duration_minutes],
                           "duration_minutes").ok
    ELSE /\ parseID(r.id).ok /\ DecodeR2(r).ok /\ KindOf(r) = S_nursing
         /\ parseTimestamp(r.occurred_at).ok
         /\ DecodeR2(r).req.DurationMinutes > 0

SideText(v, r) == IF v = "R1" THEN Get(r.side).s ELSE r.side

\* C7: the side of a nursing event is matched against left and right without
\* regard to letter case: every spelling of the two is accepted and every
\* other value is answered with a validation error.
C7_SideCaseInsensitive ==
    (pc = "done" /\ rev \in {"R1", "R2"} /\ NursingButSide(rev, Request))
        => (Response.status = 400
              <=> ToLower(SideText(rev, Request)) \notin {S_left, S_right})

\* durationMinutes as the request carries it, when it does
DurationGiven(v, r) ==
    IF v = "R1" THEN IF r.json /\ r.details THEN r.duration_minutes ELSE None
    ELSE IF v = "R2" THEN IF r.json THEN r.duration_minutes ELSE None
    ELSE IF r.json /\ r.nursing THEN r.duration_minutes ELSE None

WholePositive(v, d) ==
    IF v = "R1" THEN d.t = "number" /\ IsIntegral(d.n) /\ d.n.whole > 0
    ELSE IsIntegral(d) /\ d.whole > 0

\* C8: whenever a request carries durationMinutes, whatever its kind, it is
\* accepted only if the value is a whole number greater than zero.
C8_DurationWholePositive ==
    (pc = "done" /\ rev \in Handlers /\ IsSome(DurationGiven(rev, Request))
       /\ Response.status # 400)
        => WholePositive(rev, Get(DurationGiven(rev, Request)))

\* a kind no revision supports, however it is spelled
UnknownKind(r) == KindOf(r) \notin {S_diaper, S_diaper_change, S_nursing, S_sleep}

\* C9: a request naming an unknown or unsupported kind is answered 400 whatever
\* else it carries, and store.CreateEvent is not called for it.
C9_UnknownKindRejected ==
    [][(pc = "pending" /\ rev \in Handlers /\ UnknownKind(Request))
         => /\ Get(resp').status = 400
            /\ Get(resp').calls = 0
            /\ db' = db]_vars

C9_Witness ==
    /\ pc = "done"
    /\ rev = "R2"
    /\ Request.type = S_bottle
    /\ parseID(Request.id).ok
    /\ DecodeR2(Request).ok
    /\ parseTimestamp(Request.occurred_at).ok
    /\ Response.status = 400
    /\ Response.msg = "type must be diaper, nursing, or sleep"
    /\ Response.calls = 0

\* A field bag every check of its revision accepts: the validation of the
\* handler, or (R4) the column constraints of the events table.
Compliant(v, r) ==
    IF v # "R4" THEN ~ValidationFails(v, r)
    ELSE LET row == [type |-> r.Type, side |-> toNullString(r.Side),
                     occurred_at |-> toNullTime(r.OccurredAt),
                     started_at |-> toNullTime(r.StartedAt),
                     ended_at |-> toNullTime(r.EndedAt)]
         IN /\ CheckHolds(events_type_check(row))
            /\ CheckHolds(events_side_check(row))
            /\ CheckHolds(events_time_check(row))
            /\ CheckHolds(events_range_check(row))

\* the baby, kind and payload of an event, as passed to or returned by a store
Carried(v, e) ==
    IF v = "R4"
    THEN <<e.BabyID, e.Type, e.Side, e.OccurredAt, e.StartedAt, e.EndedAt>>
    ELSE <<e.BabyID, e.Type, e.OccurredAt, e.Details>>

\* what a returned event holds beyond Carried
Added(v) == IF v = "R1" THEN {"ID", "CreatedAt"} ELSE {"ID"}

StoreFailed(out) == out.calls = 1 /\ out.data = None

\* C11: every createEvent request ends in exactly one of three outcomes: 201
\* with the stored event when validation and storage succeed, 400 when parsing
\* or validation fails, and 500 with the generic status text, not the store's
\* error, when the store returns an error.
C11_ThreeOutcomes ==
    (pc = "done" /\ rev \in Handlers \cup {"R3n"})
        => /\ Response.status \in {201, 400, 500}
           /\ Response.status = 400 <=> ValidationFails(rev, Request)
           /\ Response.status = 201
                <=> (Response.calls = 1 /\ IsSome(Response.data)
                       /\ \E e \in db.events : e.id = Get(Response.data).ID)
           /\ Response.status = 500
                <=> (StoreFailed(Response) /\ Response.msg = InternalServerError)

\* C12: one invocation of createEvent calls the store's CreateEvent at most
\* once: exactly once when validation succeeds and not at all otherwise; a
\* failed call is not retried, so the sequence moves by at most one value and at
\* most one row is added.
C12_AtMostOneStoreCall ==
    [][(pc = "pending" /\ rev \in Handlers \cup {"R3n"})
         => /\ Get(resp').calls = (IF ValidationFails(rev, Request) THEN 0 ELSE 1)
            /\ Get(resp').calls = 0 => db' = db
            /\ db'.seq \in {db.seq, db.seq + 1}
            /\ Cardinality(db'.events \ db.events) <= 1
            /\ db.events \subseteq db'.events]_vars

C12_Witness ==
    /\ pc = "done"
    /\ rev = "R3"
    /\ Response.status = 500
    /\ Response.calls = 1
    /\ Get(Response.input).BabyID \notin BabyIDs(db)
    /\ db.seq = 2
    /\ db.events = {}

\* C13: the id of a stored event is the one storage assigns, the next value of
\* the events sequence; an id in the request body or in the event handed to
\* CreateEvent decides neither the id of the row nor the id of the event that
\* comes back.
SuppliedID ==
    IF rev = "R4" THEN Request.ID
    ELSE IF rev = "R2" /\ IsSome(Request.body_id) THEN Get(Request.body_id) ELSE 0

C13_IdAssignedByStorage ==
    [][pc = "pending"
         => /\ \A row \in db'.events \ db.events :
                 /\ row.id = db.seq
                 /\ IsSome(Get(resp').data) => Get(Get(resp').data).ID = row.id
            /\ IsSome(Get(resp').data)
                 => \E row \in db'.events \ db.events : row.id = Get(Get(resp').data).ID
            /\ (SuppliedID # 0 /\ SuppliedID # db.seq)
                 => \A row \in db'.events \ db.events : row.id # SuppliedID]_vars

C13_Witness ==
    /\ pc = "done"
    /\ rev = "R4"
    /\ SuppliedID = 7
    /\ IsSome(Response.data)
    /\ Get(Response.data).ID = 1
    /\ \E row \in db.events : row.id = 1

\* C14: whatever the interleaving of CreateEvent calls, failing ones included,
\* the stored events have pairwise distinct ids, no id is handed to two calls,
\* and an id once handed out is never handed out again: every id in the table
\* or in a running call lies below the sequence, which never moves back.
Holding == {c \in Callers : inflight[c].at = "taken"}

IdsDistinct ==
    /\ \A e1, e2 \in db.events : e1.id = e2.id => e1 = e2
    /\ \A c1, c2 \in Holding : inflight[c1].id = inflight[c2].id => c1 = c2
    /\ \A c \in Holding : inflight[c].id \notin {e.id : e \in db.events}
    /\ \A e \in db.events : e.id < db.seq
    /\ \A c \in Holding : inflight[c].id < db.seq
    /\ \A c \in Callers :
         (inflight[c].at = "returned" /\ inflight[c].ok)
           => \E e \in db.events : e.id = inflight[c].event.ID

C14_IdsNeverShared ==
    [][/\ IdsDistinct'
       /\ db'.seq >= db.seq
       /\ db.events \subseteq db'.events
       /\ \A e \in db'.events \ db.events : e.id \notin {o.id : o \in db.events}]_vars

\* Two calls ran side by side and the second caller took its id first.
C14_Witness ==
    /\ inflight[1].at = "returned" /\ inflight[1].ok /\ inflight[1].event.ID = 2
    /\ inflight[2].at = "returned" /\ inflight[2].ok /\ inflight[2].event.ID = 1
    /\ {e.id : e \in db.events} = {1, 2}
    /\ db.seq = 3

\* C15: a baby id path segment that is not entirely a decimal integer, not a
\* number at all or digits followed by other characters, is answered 400 and
\* the store is not called.
NotAnInteger(raw) == raw # S_empty /\ ~ParseInt(raw).ok

C15_NonIntegerBabyIDRejected ==
    (pc = "done" /\ rev \in Handlers /\ NotAnInteger(Request.id))
        => (Response.status = 400 /\ Response.calls = 0)

\* C16: the duration in minutes is optional for nursing: a nursing request with
\* a valid time and side and no duration passes validation and goes to the
\* store.
NursingWithoutDuration(v) ==
    IF v = "R1"
    THEN [BlankR1 EXCEPT !.type = S_nursing, !.side = Some(JStr(S_left))]
    ELSE IF v = "R2"
    THEN [BlankR2 EXCEPT !.type = S_nursing, !.occurred_at = RawAt(0), !.side = S_left]
    ELSE [BlankR3 EXCEPT !.type = S_nursing, !.nursing = TRUE, !.side = S_left]

C16_NursingDurationOptional ==
    (pc = "done" /\ rev \in Handlers /\ Request = NursingWithoutDuration(rev))
        => (Response.status # 400 /\ Response.calls = 1)

\* C17: a required timestamp that is absent or empty and one that is present
\* but malformed get different errors, a required-field error and a parse
\* error: a request whose only fault is a malformed required timestamp is
\* answered 400 with a message other than the one the same request gets with
\* the timestamp left out.
TimeFieldsOf(v) ==
    IF v = "R1" THEN {"occurred_at"}
    ELSE IF v = "R2" THEN {"occurred_at", "start_at", "end_at"}
    ELSE {"occurred_at", "start_time", "end_time"}

Serve(v, r) ==
    IF v = "R1" THEN createEventR1(r, db, "none")
    ELSE IF v = "R2" THEN createEventR2(r, db, "none")
    ELSE createEventR3(r, db, "none")

OnlyFault(v, r, f) ==
    /\ r[f] = RawMalformed
    /\ \E t \in Ticks : Serve(v, [r EXCEPT ![f] = RawAt(t)]).status # 400
    /\ Serve(v, [r EXCEPT ![f] = RawEmpty]).status = 400

C17_AbsentAndMalformedDiffer ==
    (pc = "done" /\ rev \in Handlers)
        => \A f \in TimeFieldsOf(rev) :
             OnlyFault(rev, Request, f)
               => /\ Response.status = 400
                  /\ Response.msg # Serve(rev, [Request EXCEPT ![f] = RawEmpty]).msg

\* C18: every error the store's CreateEvent returns, a missing baby included,
\* reaches the client as the same generic storage failure; createEvent has no
\* outcome of its own for a baby that was not found.
C18_OneStorageFailure ==
    (pc = "done" /\ rev \in Handlers \cup {"R3n"} /\ StoreFailed(Response))
        => (Response.status = 500 /\ Response.msg = InternalServerError)

\* C19: createEvent does not look the baby up: a request that passes
\* validation goes to the store whether or not babies has the row, and for a
\* baby id without a row the store rejects the insert, no row is added, and
\* the caller gets a storage failure.
StorageFailure(v, out) ==
    /\ out.data = None
    /\ IF v = "R4" THEN out.msg \in {InsertError(c) : c \in {"canceled", "unavailable", "constraint"}}
       ELSE out.status = 500 /\ out.msg = InternalServerError

C19_MissingBabyRejectedByStore ==
    [][(pc = "pending" /\ rev \in Handlers \cup {"R4"}
          /\ (rev = "R4" \/ ~ValidationFails(rev, Request)))
         => /\ Get(resp').calls = 1
            /\ Get(Get(resp').input).BabyID \notin BabyIDs(db)
                 => /\ StorageFailure(rev, Get(resp'))
                    /\ db'.events = db.events
                    /\ db'.babies = db.babies]_vars

C19_Witness ==
    /\ pc = "done"
    /\ rev = "R2"
    /\ Response.calls = 1
    /\ Get(Response.input).BabyID = 9
    /\ 9 \notin BabyIDs(db)
    /\ StorageFailure(rev, Response)
    /\ db.seq = 2

\* C20: ListBabies returns every baby, in ascending order of id, and a call
\* repeated with no change to babies in between returns the same sequence.
Ascending(list) == \A i, j \in 1 .. Len(list) : i < j => list[i].ID < list[j].ID

RowsOf(list) == {[id |-> list[i].ID, name |-> list[i].Name] : i \in 1 .. Len(list)}

C20_AllBabiesAscendingAndStable ==
    [][(pc' = "listed" /\ resp' # resp /\ Get(resp').ok)
         => /\ Ascending(Get(resp').data)
            /\ RowsOf(Get(resp').data) = db.babies
            /\ Len(Get(resp').data) = Cardinality(db.babies)
            /\ (pc = "listed" /\ Get(resp).ok /\ RowsOf(Get(resp).data) = db.babies)
                 => Get(resp').data = Get(resp).data]_vars

\* Three babies whose names are not in the order of their ids have been listed.
C20_Witness ==
    /\ pc = "listed"
    /\ Response.ok
    /\ Len(Response.data) = 3
    /\ Response.data[1] = [ID |-> 1, Name |-> "Charlie"]
    /\ Response.data[2] = [ID |-> 2, Name |-> "Alice"]
    /\ Response.data[3] = [ID |-> 3, Name |-> "Bob"]

\* C21: createEvent hands the caller's context to the store's CreateEvent as
\* it got it, and a store call that is cancelled reaches the caller as a
\* failure: whatever request is pending, if its store call is cancelled,
\* early or late, the outcome is an error and never a created event.
Outcome(v, r, d, fault) ==
    IF v = "R1" THEN createEventR1(r, d, fault)
    ELSE IF v = "R2" THEN createEventR2(r, d, fault)
    ELSE IF v = "R4" THEN callCreateEventR4(r, d, fault)
    ELSE createEventR3(r, d, fault)

C21_CancellationIsAFailure ==
    pc = "pending"
        => \A fault \in {"canceled", "canceled_late"} :
           LET out == Outcome(rev, Request, db, fault) IN
           out.calls = 1
             => /\ StorageFailure(rev, out)
                /\ (rev = "R4" /\ out.db.seq = db.seq)
                     => out.msg = InsertError("canceled")

\* Store.CreateEvent has returned the error of a cancelled context.
C21_Witness ==
    /\ pc = "done"
    /\ rev = "R4"
    /\ Response.calls = 1
    /\ Response.msg = InsertError("canceled")
    /\ Response.data = None
    /\ db.events = {}

\* C22: createEvent does no locking, batching or deduplication: two valid
\* requests with the same content, one after the other or side by side, each
\* make their own store call and each get their own stored event with its own
\* id.
Succeeded == {c \in Callers : inflight[c].at = "returned" /\ inflight[c].ok}

SameContent(e1, e2) == [e1 EXCEPT !.ID = 0] = [e2 EXCEPT !.ID = 0]

C22_EachRequestItsOwnEvent ==
    /\ \A c \in Succeeded : \E e \in db.events : e.id = inflight[c].event.ID
    /\ \A c1, c2 \in Succeeded : c1 # c2 => inflight[c1].event.ID # inflight[c2].event.ID
    /\ \A c \in Succeeded : inflight[c].event.ID = inflight[c].id
    /\ Cardinality(db.events) >= Cardinality(Succeeded)

\* Two requests with the same content arrived side by side through createEvent
\* and both were stored.
C22_Witness ==
    /\ rev = "R2"
    /\ Succeeded = {1, 2}
    /\ SameContent(inflight[1].event, inflight[2].event)
    /\ inflight[1].event.ID = 1
    /\ inflight[2].event.ID = 2
    /\ Cardinality(db.events) = 2

\* C23: once an event is stored no operation changes or removes it: in every
\* step the stored events only grow, and the row under an id stays as it was
\* written.
C23_StoredEventsNeverChange ==
    [][\A e \in db.events :
         /\ e \in db'.events
         /\ \A n \in db'.events : n.id = e.id => n = e]_vars

\* A second event was stored while the first one was there, and its caller has
\* taken the result.
C23_Witness ==
    /\ rev = "R4"
    /\ {e.id : e \in db.events} = {1, 2}
    /\ db.seq = 3
    /\ \E c \in Callers : inflight[c].at = "idle"
    /\ \E c \in Callers : inflight[c].at = "returned" /\ inflight[c].ok
                            /\ inflight[c].event.ID = 2

\* C24: no failure is fatal or sticky: whatever requests were rejected or failed
\* in the store before, a request is validated and handed to the store, and the
\* store acts on it, exactly as on a database that never saw a failure; only
\* the id it gets may be a later one.
FreshDb == [babies |-> db.babies, events |-> {}, seq |-> 1]

AsOnFreshDb(c) ==
    /\ (rev = "R2" /\ inflight[c].at = "idle" /\ inflight'[c].at # "idle")
         => \E r \in ConcurrentRequests :
              LET fresh == createEventR2(r, FreshDb, "none") IN
              inflight'[c] = IF fresh.calls = 0
                             THEN [IdleCall EXCEPT !.at = "returned",
                                                   !.status = fresh.status]
                             ELSE [IdleCall EXCEPT !.at = "called",
                                                   !.event = Get(fresh.input)]
    /\ (inflight[c].at = "taken" /\ inflight'[c].at = "returned")
         => \E fault \in StoreFaults :
              LET fresh == StoreCreateEvent(rev, FreshDb, inflight[c].event, fault) IN
              /\ inflight'[c].ok = fresh.ok
              /\ SameContent(inflight'[c].event, fresh.event)
              /\ fresh.ok => \E e \in db'.events \ db.events : e.id = inflight[c].id

NamesInIdOrder(rows) == [i \in 1 .. Len(OrderByID(rows)) |-> OrderByID(rows)[i].name]

SeedsAsFound(c) ==
    /\ (inflight[c].at = "idle" /\ inflight'[c].at = "counted")
         => (inflight'[c].count = 0 <=> db.babies = {})
    /\ (inflight[c].at = "counted"
          /\ (inflight'[c].at = "ready" \/ db'.babies # db.babies))
         => IF inflight[c].count > 0 THEN db'.babies = db.babies
            ELSE /\ db.babies \subseteq db'.babies
                 /\ NamesInIdOrder(db'.babies \ db.babies) = <<"Alice", "Bob", "Charlie">>
                 /\ \A n \in db'.babies \ db.babies : \A o \in db.babies : o.id < n.id
    /\ inflight'[c].at \in {"counted", "idle"} => db'.babies = db.babies

C25_SeedsOnlyWhenFoundEmpty ==
    [][\A c \in Callers : inflight'[c] # inflight[c] => SeedsAsFound(c)]_vars

\* One New ran alone on the empty database and has returned its store.
C25_Witness ==
    /\ inflight[1].at = "ready"
    /\ inflight[1].count = 0
    /\ \A c \in Callers \ {1} : inflight[c].at = "idle"
    /\ db.babies = SeededBabies

\* C26: when calls of New run side by side on the same empty database the seed
\* is inserted once: babies never holds more than Alice, Bob and Charlie.
StartedEmpty == \A b \in db.babies : b.name \in {SeedNames[i] : i \in 1 .. 3}

C26_SeedInsertedOnce ==
    StartedEmpty
        => (Cardinality(db.babies) <= 3
              /\ \A b1, b2 \in db.babies : b1.name = b2.name => b1 = b2)

\* C27: for every sleep event buildCreateEventInput hands to the store, the
\* start_at and end_at in its details denote the instants of the request's
\* timestamps, fractions of a second included, so the recorded end_at lies
\* strictly after the recorded start_at.
C27_SleepDetailsKeepInstants ==
    (pc = "done" /\ rev = "R2" /\ Response.calls = 1
       /\ Get(Response.input).Type = S_sleep)
        => LET details == Get(Response.input).Details IN
           /\ details.start_at = Some(timeParse(Request.start_at).t)
           /\ details.end_at = Some(timeParse(Request.end_at).t)
           /\ Get(details.start_at) < Get(details.end_at)

\* C28: a store CreateEvent that fails, on a constraint of the schema, on a
\* baby without a row or on a cancelled context, returns the zero event with
\* an error and leaves the stored events as they were.
FailedCleanly(res, zero, d) == ~res.ok => (res.event = zero /\ res.db.events = d.events)

C28_FailedCreateStoresNothing ==
    (pc = "pending" /\ rev \in {"R1", "R4"})
        => \A fault \in StoreFaults :
             IF rev = "R4"
             THEN LET res == CreateEventR4(db, Request, fault) IN
                  FailedCleanly(res, ZeroEventR4, db) /\ (~res.ok => res.err # "")
             ELSE LET out == createEventR1(Request, db, "none") IN
                  out.calls = 1
                    => FailedCleanly(CreateEventP6(db, Get(out.input), fault), ZeroEventR1, db)

\* C29: every event type buildCreateEventInput hands to the store is one of
\* the lowercase texts diaper, nursing and sleep, also when the type of the
\* request differs from them in case or carries surrounding whitespace.
CanonicalTypes == {S_diaper, S_nursing, S_sleep}

C29_StoredTypeIsCanonical ==
    [][(pc = "pending" /\ rev \in {"R2", "R3", "R3n"} /\ Get(resp').calls = 1)
         => /\ Get(Get(resp').input).Type \in CanonicalTypes
            /\ Get(Get(resp').input).Type = ToLower(TrimSpace(Request.type))]_vars

C29_Witness ==
    /\ pc = "done" /\ rev = "R2"
    /\ Response.calls = 1
    /\ Request.type = S_Sleep_sp
    /\ Get(Response.input).Type = S_sleep
    /\ \E e \in db.events : e.type = S_sleep

\* C30: for every numeric duration_minutes that getPositiveInt accepts, the
\* integer it returns is greater than zero and equal to the value supplied,
\* however large the float: the conversion neither overflows nor wraps.
C30_AcceptedDurationIsExact ==
    (pc = "done" /\ rev = "R1" /\ Response.calls = 1
       /\ IsSome(Get(Response.input).Details.duration_minutes))
        => LET n == Get(Get(Response.input).Details.duration_minutes) IN
           /\ n > 0
           /\ n = Get(Request.duration_minutes).n.whole

====
